---- MODULE Spec2Model ----
(***************************************************************************)
(* Model of the TruthSense AI headline engine (detectHeadline, the fully   *)
(* weighted revision) and of the CSV log server (POST /log-headline).      *)
(* Strings are TLA+ strings; every string function of the source (trim,    *)
(* toLowerCase, toUpperCase, includes, split, match, replace, join) is     *)
(* computed character by character.                                        *)
(***************************************************************************)
EXTENDS Integers, Sequences, FiniteSets, TLC

VARIABLES
    pc,          \* position of the current detectHeadline call
    headline,    \* the argument of the current call
    original,    \* const original = headline.trim()
    lower,       \* const lower = original.toLowerCase()
    fakeScore,   \* let fakeScore
    trustScore,  \* let trustScore
    reasons,     \* const reasons: string[]
    words,       \* const words = original.split(/\s+/)
    result,      \* the DetectionResult handed to the caller
    prev,        \* what a caller remembers of an earlier call (<<>>: nothing)
    logFile,     \* headline_logs.csv: <<>> when absent, else <<content>>
    request,     \* the body of the last POST /log-headline request
    response,    \* the response to it
    accepted,    \* the bodies of the requests answered ok, in handling order
    handled,     \* the number of requests handled
    clock        \* the wall clock read by new Date()

detectVars == <<pc, headline, original, lower, fakeScore, trustScore, reasons, words, result>>
logVars == <<logFile, request, response, accepted, handled, clock>>
vars == <<pc, headline, original, lower, fakeScore, trustScore, reasons, words, result,
          prev, logFile, request, response, accepted, handled, clock>>

----------------------------------------------------------------------------
(* Bounds of the model *)

\* the longest headline, in pieces, a caller submits under Spec
MaxPieces == 3
\* the longest headline, in pieces, a caller submits under SpecCalls
MaxCallPieces == 2
\* the number of POST /log-headline requests under SpecLog
MaxRequests == 3
\* the latest reading of the clock under SpecLog
MaxClock == 2

----------------------------------------------------------------------------
(* Strings *)

CharAt(s, i) == SubSeq(s, i, i)

\* the characters String.prototype.trim and the regular expression \s treat
\* as white space, among those the inputs use
WhiteSpace == {" ", "\t"}

UpperLetters == "ABCDEFGHIJKLMNOPQRSTUVWXYZ"
LowerLetters == "abcdefghijklmnopqrstuvwxyz"

\* the letter tables of toLowerCase and toUpperCase
LowerOf ==
    [c \in {CharAt(UpperLetters, i) : i \in 1..26} |->
        CharAt(LowerLetters, CHOOSE i \in 1..26 : CharAt(UpperLetters, i) = c)]

UpperOf ==
    [c \in {CharAt(LowerLetters, i) : i \in 1..26} |->
        CharAt(UpperLetters, CHOOSE i \in 1..26 : CharAt(LowerLetters, i) = c)]

LowerChar(c) == IF c \in DOMAIN LowerOf THEN LowerOf[c] ELSE c

UpperChar(c) == IF c \in DOMAIN UpperOf THEN UpperOf[c] ELSE c

\* halved rather than walked, so that the evaluation stays shallow
RECURSIVE toLowerCase(_)
toLowerCase(s) ==
    IF Len(s) = 0 THEN ""
    ELSE IF Len(s) = 1 THEN LowerChar(s)
    ELSE LET h == Len(s) \div 2
         IN  toLowerCase(SubSeq(s, 1, h)) \o toLowerCase(SubSeq(s, h + 1, Len(s)))

RECURSIVE toUpperCase(_)
toUpperCase(s) ==
    IF Len(s) = 0 THEN ""
    ELSE IF Len(s) = 1 THEN UpperChar(s)
    ELSE LET h == Len(s) \div 2
         IN  toUpperCase(SubSeq(s, 1, h)) \o toUpperCase(SubSeq(s, h + 1, Len(s)))

\* the positions of s that hold no white space
InkAt(s) == {i \in 1..Len(s) : CharAt(s, i) \notin WhiteSpace}

Least(S) == CHOOSE x \in S : \A y \in S : x <= y

Greatest(S) == CHOOSE x \in S : \A y \in S : x >= y

trimStart(s) == IF InkAt(s) = {} THEN "" ELSE SubSeq(s, Least(InkAt(s)), Len(s))

trimEnd(s) == IF InkAt(s) = {} THEN "" ELSE SubSeq(s, 1, Greatest(InkAt(s)))

trim(s) == trimEnd(trimStart(s))

\* text.includes(item)
includes(text, item) ==
    \E i \in 1..(Len(text) - Len(item) + 1) : SubSeq(text, i, i + Len(item) - 1) = item

\* arr.some((item) => text.includes(item))
containsAny(text, arr) == \E k \in 1..Len(arr) : includes(text, arr[k])

\* (text.match(/<c>/g) || []).length
matchCount(text, c) == Cardinality({i \in 1..Len(text) : CharAt(text, i) = c})

\* s.split(/\s+/): the maximal runs without white space, with an empty string
\* in front when s starts with white space and one behind when it ends with it
split(s) ==
    LET starts == {i \in InkAt(s) : i = 1 \/ CharAt(s, i - 1) \in WhiteSpace}
        endOf(i) == Least({j \in i..Len(s) : j = Len(s) \/ CharAt(s, j + 1) \in WhiteSpace})
        nth(k) == CHOOSE i \in starts : Cardinality({j \in starts : j < i}) = k - 1
        runs == [k \in 1..Cardinality(starts) |-> SubSeq(s, nth(k), endOf(nth(k)))]
    IN  IF Len(s) = 0 THEN <<"">>
        ELSE (IF CharAt(s, 1) \in WhiteSpace THEN <<"">> ELSE <<>>)
             \o runs
             \o (IF CharAt(s, Len(s)) \in WhiteSpace THEN <<"">> ELSE <<>>)

RECURSIVE join(_, _)
join(arr, sep) ==
    IF Len(arr) = 0 THEN ""
    ELSE IF Len(arr) = 1 THEN arr[1]
    ELSE arr[1] \o sep \o join(Tail(arr), sep)

RECURSIVE concat(_)
concat(arr) == IF Len(arr) = 0 THEN "" ELSE arr[1] \o concat(Tail(arr))

----------------------------------------------------------------------------
(* The rule tables of detectHeadline *)

impossibleClaims ==
    << "immortal", "immortality", "live forever", "cure cancer", "cures all diseases",
       "time travel", "teleportation", "reverse aging", "resurrect", "brings dead back",
       "weather control", "invincible" >>

strongClickbait ==
    << "you won't believe", "shocking", "explosive", "mind-blowing", "unbelievable",
       "this will change your life", "goes viral", "secret method", "top secret",
       "hidden truth", "what happens next" >>

sensationalWords ==
    << "miracle", "outrageous", "insane", "jaw-dropping", "scandal", "exposed",
       "insider reveals" >>

absoluteLanguage ==
    << "never", "always", "everyone", "no one", "proves once and for all" >>

trustworthyCues ==
    << "study", "research", "according to", "report", "analysis", "university",
       "scientists at", "researchers at", "published in", "official data",
       "peer-reviewed", "in a journal" >>

ImpossibleReason == "Mentions impossible or pseudoscientific claims."
ClickbaitReason == "Uses strong clickbait language associated with fake headlines."
SensationalReason == "Contains sensational or emotionally-loaded words."
AbsoluteReason == "Uses absolute language often seen in misleading content."
MultiExclamationReason == "Contains multiple exclamation marks, indicating exaggeration."
OneExclamationReason ==
    "Contains an exclamation mark, a common indicator of strong sensationalism."
AllCapsReason == "Contains multiple ALL-CAPS words used to grab attention."
TrustReason == "References research, data, universities, or official sources."
NeutralExplanation ==
    "The headline appears neutral and does not match common patterns of misleading or sensational content."

----------------------------------------------------------------------------
(* The inputs: headlines put together from at most n pieces *)

Filler == " City council approves new budget for road repairs"

Pieces ==
    { " \t", " immortality", " SHOCKING", " miracle", " never", " study", " NEWS", "!",
      Filler }

CallPieces == { " never", " study", "!", Filler }

HeadlinesOf(pieces, n) ==
    { concat(p) : p \in UNION { [1..k -> pieces] : k \in 0..n } }

Headlines == HeadlinesOf(Pieces, MaxPieces)

CallHeadlines == HeadlinesOf(CallPieces, MaxCallPieces)

----------------------------------------------------------------------------
(* detectHeadline *)

NoResult == [label |-> "", confidence |-> 0, explanation |-> ""]

\* mutant: the empty-input result of the fixed-confidence revisions
EmptyResult92 ==
    [label |-> "fake", confidence |-> 92, explanation |-> "No headline text was provided."]

EmptyResult ==
    [label |-> "fake", confidence |-> 0, explanation |-> "No headline text was provided."]

Min(a, b) == IF a <= b THEN a ELSE b

Abs(x) == IF x < 0 THEN -x ELSE x

\* Math.round, on the integers the scores are
round(x) == x

\* if (fires) { score += weight; reasons.push(sentence); }
ApplyRule(acc, fires, weight, sentence) ==
    IF fires
    THEN [score |-> acc.score + weight, reasons |-> Append(acc.reasons, sentence)]
    ELSE acc

\* the entry of the function: trim, lower-case, the empty-input return, and
\* the fresh accumulators
detectHeadline(s) ==
    /\ pc = "idle"
    /\ headline' = s
    /\ original' = trim(s)
    /\ lower' = toLowerCase(trim(s))
    /\ IF trim(s) = ""
       THEN /\ result' = EmptyResult
            /\ pc' = "done"
            /\ UNCHANGED <<fakeScore, trustScore, reasons>>
       ELSE /\ fakeScore' = 0
            /\ trustScore' = 0
            /\ reasons' = <<>>
            /\ pc' = "categories"
            /\ UNCHANGED result
    /\ UNCHANGED <<words, prev, logVars>>

\* the phrases of arr that occur in text, counted
matches(text, arr) == Cardinality({k \in 1..Len(arr) : includes(text, arr[k])})

RECURSIVE ApplyRuleTimes(_, _, _, _)
ApplyRuleTimes(acc, n, weight, sentence) ==
    IF n = 0 THEN acc
    ELSE ApplyRuleTimes(ApplyRule(acc, TRUE, weight, sentence), n - 1, weight, sentence)

\* mutant: a category scores once for every phrase of its list that matches
ScoreCategoriesPerPhrase ==
    /\ pc = "categories"
    /\ LET a0 == [score |-> fakeScore, reasons |-> reasons]
           a1 == ApplyRuleTimes(a0, matches(lower, impossibleClaims), 5, ImpossibleReason)
           a2 == ApplyRuleTimes(a1, matches(lower, strongClickbait), 4, ClickbaitReason)
           a3 == ApplyRuleTimes(a2, matches(lower, sensationalWords), 3, SensationalReason)
           a4 == ApplyRuleTimes(a3, matches(lower, absoluteLanguage), 2, AbsoluteReason)
       IN  /\ fakeScore' = a4.score
           /\ reasons' = a4.reasons
    /\ pc' = "punctuation"
    /\ UNCHANGED <<headline, original, lower, trustScore, words, result, prev, logVars>>

\* mutant: absolute language is added to the wrong accumulator
ScoreCategoriesAbsoluteAsTrust ==
    /\ pc = "categories"
    /\ LET a0 == [score |-> fakeScore, reasons |-> reasons]
           a1 == ApplyRule(a0, containsAny(lower, impossibleClaims), 5, ImpossibleReason)
           a2 == ApplyRule(a1, containsAny(lower, strongClickbait), 4, ClickbaitReason)
           a3 == ApplyRule(a2, containsAny(lower, sensationalWords), 3, SensationalReason)
           a4 == ApplyRule([score |-> trustScore, reasons |-> a3.reasons],
                           containsAny(lower, absoluteLanguage), 2, AbsoluteReason)
       IN  /\ fakeScore' = a3.score
           /\ trustScore' = a4.score
           /\ reasons' = a4.reasons
    /\ pc' = "punctuation"
    /\ UNCHANGED <<headline, original, lower, words, result, prev, logVars>>

\* impossible claims, strong clickbait, sensational words, absolute language
ScoreCategories ==
    /\ pc = "categories"
    /\ LET a0 == [score |-> fakeScore, reasons |-> reasons]
           a1 == ApplyRule(a0, containsAny(lower, impossibleClaims), 5, ImpossibleReason)
           a2 == ApplyRule(a1, containsAny(lower, strongClickbait), 4, ClickbaitReason)
           a3 == ApplyRule(a2, containsAny(lower, sensationalWords), 3, SensationalReason)
           a4 == ApplyRule(a3, containsAny(lower, absoluteLanguage), 2, AbsoluteReason)
       IN  /\ fakeScore' = a4.score
           /\ reasons' = a4.reasons
    /\ pc' = "punctuation"
    /\ UNCHANGED <<headline, original, lower, trustScore, words, result, prev, logVars>>

\* excessive punctuation
ScorePunctuation ==
    /\ pc = "punctuation"
    /\ LET exclamations == matchCount(original, "!")
           a0 == [score |-> fakeScore, reasons |-> reasons]
           a1 == IF exclamations >= 2
                 THEN ApplyRule(a0, TRUE, 3, MultiExclamationReason)
                 ELSE ApplyRule(a0, exclamations = 1, 1, OneExclamationReason)
       IN  /\ fakeScore' = a1.score
           /\ reasons' = a1.reasons
    /\ pc' = "allcaps"
    /\ UNCHANGED <<headline, original, lower, trustScore, words, result, prev, logVars>>

\* w.length >= 4 && w === w.toUpperCase()
isAllCaps(w) == Len(w) >= 4 /\ w = toUpperCase(w)

\* ALL CAPS words
ScoreAllCaps ==
    /\ pc = "allcaps"
    /\ words' = split(original)
    /\ LET allCaps == SelectSeq(split(original), isAllCaps)
           a0 == [score |-> fakeScore, reasons |-> reasons]
           a1 == ApplyRule(a0, Len(allCaps) >= 2, 3, AllCapsReason)
       IN  /\ fakeScore' = a1.score
           /\ reasons' = a1.reasons
    /\ pc' = "trust"
    /\ UNCHANGED <<headline, original, lower, trustScore, result, prev, logVars>>

\* mutant: the trust sentence is put in front of the reasons (unshift)
ScoreTrustFirst ==
    /\ pc = "trust"
    /\ LET fires == containsAny(lower, trustworthyCues)
       IN  /\ trustScore' = IF fires THEN trustScore + 4 ELSE trustScore
           /\ reasons' = IF fires THEN <<TrustReason>> \o reasons ELSE reasons
    /\ pc' = "length"
    /\ UNCHANGED <<headline, original, lower, fakeScore, words, result, prev, logVars>>

\* trust indicators
ScoreTrust ==
    /\ pc = "trust"
    /\ LET a0 == [score |-> trustScore, reasons |-> reasons]
           a1 == ApplyRule(a0, containsAny(lower, trustworthyCues), 4, TrustReason)
       IN  /\ trustScore' = a1.score
           /\ reasons' = a1.reasons
    /\ pc' = "length"
    /\ UNCHANGED <<headline, original, lower, fakeScore, words, result, prev, logVars>>

\* length analysis
ScoreLength ==
    /\ pc = "length"
    /\ trustScore' = IF Len(words) > 14 THEN trustScore + 1 ELSE trustScore
    /\ fakeScore' = IF Len(words) < 5 THEN fakeScore + 1 ELSE fakeScore
    /\ pc' = "decide"
    /\ UNCHANGED <<headline, original, lower, reasons, words, result, prev, logVars>>

\* the result computed from the scores and the reasons
decideBase(fs, ts, rs) ==
    LET finalScore == fs - ts
        label == IF finalScore >= 3 THEN "fake"
                 ELSE IF finalScore <= -2 THEN "trustworthy"
                 ELSE IF finalScore > 0 THEN "fake" ELSE "trustworthy"
        confidence == IF finalScore >= 3 THEN 85 + Min(fs * 2, 10)
                      ELSE IF finalScore <= -2 THEN 80 + Min(ts * 2, 15)
                      ELSE 70 + Abs(finalScore) * 5
        explanation == IF Len(rs) > 0 THEN join(rs, " ") ELSE NeutralExplanation
    IN  [label |-> label,
         confidence |-> Min(95, round(confidence)),
         explanation |-> explanation]

\* mutant: neither Math.min caps the strong-fake confidence
decideUncapped(fs, ts, rs) ==
    [decideBase(fs, ts, rs) EXCEPT !.confidence = IF fs - ts >= 3 THEN 85 + fs * 2 ELSE @]

\* mutant: the strong-fake threshold is "> 3", as its comment says, so a
\* finalScore of 3 falls into the borderline branch
decideAbove3(fs, ts, rs) ==
    [decideBase(fs, ts, rs) EXCEPT !.confidence = IF fs - ts = 3 THEN 70 + 3 * 5 ELSE @]

\* mutant: the fixed confidences of the earlier revision (92, 88, 85, 83)
decideFixed(fs, ts, rs) ==
    [decideBase(fs, ts, rs) EXCEPT
        !.confidence = IF fs - ts >= 3 THEN 92
                       ELSE IF fs - ts <= -2 THEN 88
                       ELSE IF fs - ts > 0 THEN 85 ELSE 83]

decide(fs, ts, rs) == decideBase(fs, ts, rs)

\* mutant: the random label and confidence of the baseline revision
DecideLabelRandom ==
    /\ pc = "decide"
    /\ \E isFake \in BOOLEAN, r \in {0, 19} :
          result' = [label |-> IF isFake THEN "fake" ELSE "trustworthy",
                     confidence |-> r + 75,
                     explanation |-> decide(fakeScore, trustScore, reasons).explanation]
    /\ pc' = "done"
    /\ UNCHANGED <<headline, original, lower, fakeScore, trustScore, reasons, words,
                   prev, logVars>>

\* final label decision and explanation formation
DecideLabel ==
    /\ pc = "decide"
    /\ result' = decide(fakeScore, trustScore, reasons)
    /\ pc' = "done"
    /\ UNCHANGED <<headline, original, lower, fakeScore, trustScore, reasons, words,
                   prev, logVars>>

\* the call returns: its locals are gone
PopFrame ==
    /\ pc' = "idle"
    /\ headline' = ""
    /\ original' = ""
    /\ lower' = ""
    /\ fakeScore' = 0
    /\ trustScore' = 0
    /\ reasons' = <<>>
    /\ words' = <<>>
    /\ result' = NoResult

\* the caller drops the result
Return ==
    /\ pc = "done"
    /\ PopFrame
    /\ UNCHANGED <<prev, logVars>>

\* the caller keeps the headline and the result of this call
ReturnAndKeep ==
    /\ pc = "done"
    /\ prev' = << [headline |-> headline, original |-> original, lower |-> lower,
                   fakeScore |-> fakeScore, trustScore |-> trustScore,
                   result |-> result] >>
    /\ PopFrame
    /\ UNCHANGED logVars

----------------------------------------------------------------------------
(* The log server *)

\* a JSON value of a request body: a missing field is undefined
Undefined == [type |-> "undefined"]
Str(s) == [type |-> "string", str |-> s]
Num(n) == [type |-> "number", num |-> n]

Bodies ==
    [ headline : { Undefined, Num(7), Str(""), Str("Cats nap"), Str("Say \"hi\"") },
      label : { Undefined, Str("fake") },
      confidence : { Undefined, Num(75) } ]

NoRequest == [headline |-> Undefined, label |-> Undefined, confidence |-> Undefined]

NoResponse == [status |-> 0, body |-> ""]

CsvHeader == "timestamp,headline,label,confidence\n"

\* !v
Falsy(v) ==
    \/ v.type = "undefined"
    \/ v.type = "string" /\ v.str = ""
    \/ v.type = "number" /\ v.num = 0

\* s.replace(/"/g, '""')
RECURSIVE escapeQuotes(_)
escapeQuotes(s) ==
    IF Len(s) = 0 THEN ""
    ELSE IF Len(s) = 1 THEN (IF s = "\"" THEN "\"\"" ELSE s)
    ELSE LET h == Len(s) \div 2
         IN  escapeQuotes(SubSeq(s, 1, h)) \o escapeQuotes(SubSeq(s, h + 1, Len(s)))

\* new Date().toISOString(), the clock counting seconds from the epoch
toISOString(t) ==
    "1970-01-01T00:00:" \o (IF t < 10 THEN "0" ELSE "") \o ToString(t) \o ".000Z"

\* String(label ?? "")
labelString(v) ==
    IF v.type = "undefined" THEN ""
    ELSE IF v.type = "string" THEN v.str
    ELSE ToString(v.num)

\* Number(confidence ?? 0)
confidenceNumber(v) == IF v.type = "number" THEN v.num ELSE 0

\* the record of a request handled at time t
csvLine(body, t) ==
    "\"" \o toISOString(t) \o "\",\"" \o escapeQuotes(body.headline.str) \o "\",\""
         \o escapeQuotes(labelString(body.label)) \o "\","
         \o ToString(confidenceNumber(body.confidence)) \o "\n"

\* mutant: the header is written without asking whether the file exists
ensureHeaderAlways(file) == <<CsvHeader>>

\* the file after ensureHeader()
ensureHeader(file) == IF file = <<>> THEN <<CsvHeader>> ELSE file

\* the file after fs.appendFileSync(LOG_FILE, line)
appendFileSync(file, line) == IF file = <<>> THEN <<line>> ELSE <<file[1] \o line>>

\* app.post("/log-headline", ...)
PostLogHeadline(body) ==
    /\ handled < MaxRequests
    /\ handled' = handled + 1
    /\ request' = body
    /\ IF Falsy(body.headline) \/ body.headline.type # "string"
       THEN /\ response' = [status |-> 400, body |-> "{\"error\":\"headline is required\"}"]
            /\ UNCHANGED <<logFile, accepted>>
       ELSE /\ logFile' = appendFileSync(ensureHeader(logFile), csvLine(body, clock))
            /\ accepted' = Append(accepted, [body |-> body, at |-> clock])
            /\ response' = [status |-> 200, body |-> "{\"ok\":true}"]
    /\ UNCHANGED <<detectVars, prev, clock>>

\* time passes
Tick ==
    /\ clock < MaxClock
    /\ clock' = clock + 1
    /\ UNCHANGED <<detectVars, prev, logFile, request, response, accepted, handled>>

----------------------------------------------------------------------------
(* Specifications *)

Init ==
    /\ pc = "idle"
    /\ headline = ""
    /\ original = ""
    /\ lower = ""
    /\ fakeScore = 0
    /\ trustScore = 0
    /\ reasons = <<>>
    /\ words = <<>>
    /\ result = NoResult
    /\ prev = <<>>
    /\ logFile = <<>>
    /\ request = NoRequest
    /\ response = NoResponse
    /\ accepted = <<>>
    /\ handled = 0
    /\ clock = 0

\* a caller invokes detectHeadline when no call is in progress
Call == pc = "idle" /\ \E s \in Headlines : detectHeadline(s)

\* the same, by a caller that keeps results to compare
CallAgain == pc = "idle" /\ \E s \in CallHeadlines : detectHeadline(s)

Score ==
    \/ ScoreCategories
    \/ ScorePunctuation
    \/ ScoreAllCaps
    \/ ScoreTrust
    \/ ScoreLength
    \/ DecideLabel

Next ==
    \/ Call
    \/ Score
    \/ Return

Spec == Init /\ [][Next]_vars

NextCalls ==
    \/ CallAgain
    \/ Score
    \/ Return
    \/ ReturnAndKeep

SpecCalls == Init /\ [][NextCalls]_vars

NextLog ==
    \/ \E body \in Bodies : PostLogHeadline(body)
    \/ Tick

SpecLog == Init /\ [][NextLog]_vars

----------------------------------------------------------------------------
(* What a headline triggers, read off the strings of a call *)

AllWhite(s) == \A i \in 1..Len(s) : CharAt(s, i) \in WhiteSpace

WordCount(orig) == Len(split(orig))

CapsWords(orig) == Len(SelectSeq(split(orig), isAllCaps))

\* the phrases of a table that occur in the text
Matching(lo, arr) == {k \in 1..Len(arr) : includes(lo, arr[k])}

FakeCategories(lo) ==
    (IF Matching(lo, impossibleClaims) # {} THEN {"impossible"} ELSE {})
    \cup (IF Matching(lo, strongClickbait) # {} THEN {"clickbait"} ELSE {})
    \cup (IF Matching(lo, sensationalWords) # {} THEN {"sensational"} ELSE {})
    \cup (IF Matching(lo, absoluteLanguage) # {} THEN {"absolute"} ELSE {})

StructuralFake(orig) ==
    (IF matchCount(orig, "!") >= 2 THEN {"exclamations"} ELSE {})
    \cup (IF matchCount(orig, "!") = 1 THEN {"exclamation"} ELSE {})
    \cup (IF CapsWords(orig) >= 2 THEN {"allcaps"} ELSE {})
    \cup (IF WordCount(orig) < 5 THEN {"short"} ELSE {})

TrustSignals(lo, orig) ==
    (IF Matching(lo, trustworthyCues) # {} THEN {"cues"} ELSE {})
    \cup (IF WordCount(orig) > 14 THEN {"long"} ELSE {})

\* the weights of the fake-leaning rules in S, added up
FakeSum(S) ==
    (IF "impossible" \in S THEN 5 ELSE 0) + (IF "clickbait" \in S THEN 4 ELSE 0)
    + (IF "sensational" \in S THEN 3 ELSE 0) + (IF "absolute" \in S THEN 2 ELSE 0)
    + (IF "exclamations" \in S THEN 3 ELSE 0) + (IF "exclamation" \in S THEN 1 ELSE 0)
    + (IF "allcaps" \in S THEN 3 ELSE 0) + (IF "short" \in S THEN 1 ELSE 0)

\* the weights of the trust-leaning rules in S, added up
TrustSum(S) == (IF "cues" \in S THEN 4 ELSE 0) + (IF "long" \in S THEN 1 ELSE 0)

Occurrences(seq, x) == Cardinality({i \in 1..Len(seq) : seq[i] = x})

Scored == pc = "done" /\ original # ""

----------------------------------------------------------------------------
(* C1: a headline that is empty or only white space is answered at once with
   label fake, confidence 0 and "No headline text was provided."; the call
   never enters a scoring stage and no score or reason is recorded. *)
C1_EmptyInput ==
    (pc # "idle" /\ AllWhite(headline)) =>
        /\ pc = "done"
        /\ result = [label |-> "fake", confidence |-> 0,
                     explanation |-> "No headline text was provided."]
        /\ fakeScore = 0 /\ trustScore = 0 /\ reasons = <<>>

C1_Witness == pc = "done" /\ Len(headline) >= 2 /\ AllWhite(headline)

(* C2: the confidence returned is an integer from 0 to 95. *)
C2_ConfidenceBound == pc = "done" => result.confidence \in 0..95

C2_Witness == Scored /\ result.confidence = 95 /\ fakeScore >= 9

(* C3: with finalScore = fakeScore - trustScore, the first matching threshold
   decides: >= 3 gives fake with min(95, 85 + min(2*fakeScore, 10)); else
   <= -2 gives trustworthy with min(95, 80 + min(2*trustScore, 15)); else the
   label is fake if finalScore > 0, trustworthy otherwise, with
   min(95, 70 + 5*|finalScore|). *)
C3_Thresholds ==
    Scored =>
        LET finalScore == fakeScore - trustScore IN
        /\ finalScore >= 3 =>
              /\ result.label = "fake"
              /\ result.confidence = Min(95, 85 + Min(2 * fakeScore, 10))
        /\ finalScore < 3 /\ finalScore <= -2 =>
              /\ result.label = "trustworthy"
              /\ result.confidence = Min(95, 80 + Min(2 * trustScore, 15))
        /\ finalScore \in -1..2 =>
              /\ result.label = (IF finalScore > 0 THEN "fake" ELSE "trustworthy")
              /\ result.confidence = Min(95, 70 + 5 * Abs(finalScore))

C3_Witness == Scored /\ fakeScore - trustScore = 3 /\ trustScore > 0

(* C4: two calls with the same string, however many other calls lie between
   them, return the same label, confidence and explanation. *)
C4_Deterministic ==
    (pc = "done" /\ prev # <<>> /\ prev[1].headline = headline) =>
        result = prev[1].result

C4_Witness ==
    /\ Scored /\ prev # <<>> /\ prev[1].headline = headline
    /\ result.label = "trustworthy" /\ trustScore > 0

(* C5, as stated: with the same triggered trust-leaning signals, a superset
   of triggered fake-leaning categories gives a fakeScore that is not smaller
   and never turns a fake label into trustworthy. *)
C5_Original ==
    (Scored /\ prev # <<>> /\ prev[1].original # ""
        /\ TrustSignals(prev[1].lower, prev[1].original) = TrustSignals(lower, original)
        /\ FakeCategories(prev[1].lower) \subseteq FakeCategories(lower)) =>
        /\ fakeScore >= prev[1].fakeScore
        /\ prev[1].result.label = "fake" => result.label # "trustworthy"

(* C5, amended: with the same triggered trust-leaning signals, a superset of
   ALL triggered fake-leaning rules (the four phrase categories, either
   exclamation tier, the all-caps rule, the word count below 5) gives a
   fakeScore that is not smaller and never turns a fake label into
   trustworthy. *)
C5_Monotone ==
    (Scored /\ prev # <<>> /\ prev[1].original # ""
        /\ TrustSignals(prev[1].lower, prev[1].original) = TrustSignals(lower, original)
        /\ FakeCategories(prev[1].lower) \subseteq FakeCategories(lower)
        /\ StructuralFake(prev[1].original) \subseteq StructuralFake(original)) =>
        /\ fakeScore >= prev[1].fakeScore
        /\ prev[1].result.label = "fake" => result.label # "trustworthy"

C5_Witness ==
    /\ Scored /\ prev # <<>> /\ prev[1].original # ""
    /\ TrustSignals(prev[1].lower, prev[1].original) = TrustSignals(lower, original)
    /\ FakeCategories(prev[1].lower) \subseteq FakeCategories(lower)
    /\ FakeCategories(prev[1].lower) # FakeCategories(lower)
    /\ StructuralFake(prev[1].original) \subseteq StructuralFake(original)
    /\ fakeScore > prev[1].fakeScore
    /\ prev[1].result.label = "fake"

NoRuleTriggers ==
    /\ FakeCategories(lower) = {}
    /\ Matching(lower, trustworthyCues) = {}
    /\ matchCount(original, "!") = 0
    /\ CapsWords(original) < 2
    /\ WordCount(original) \in 5..14

(* C6, as stated: a headline that triggers no rule and has 5 to 14 words is
   trustworthy with confidence 83 and the default neutral explanation. *)
C6_Original ==
    (Scored /\ NoRuleTriggers) =>
        result = [label |-> "trustworthy", confidence |-> 83,
                  explanation |-> NeutralExplanation]

(* C6, amended: a headline that triggers no rule and has 5 to 14 words is
   trustworthy with confidence 70 and the default neutral explanation. *)
C6_NeutralDefault ==
    (Scored /\ NoRuleTriggers) =>
        result = [label |-> "trustworthy", confidence |-> 70,
                  explanation |-> NeutralExplanation]

C6_Witness ==
    /\ pc = "done"
    /\ original = "City council approves new budget for road repairs"
    /\ NoRuleTriggers

(* C8: fakeScore is the sum of the weights of the fake-leaning rules that
   triggered, trustScore the sum for the trust-leaning ones, and a rule's
   sentence is recorded once when it triggered and not at all otherwise,
   however many phrases of its list match. *)
C8_ScoresCountOnce ==
    Scored =>
        LET cats == FakeCategories(lower)
            fake == cats \cup StructuralFake(original)
            trust == TrustSignals(lower, original)
            once(sentence, fired) == Occurrences(reasons, sentence) = (IF fired THEN 1 ELSE 0)
        IN  /\ fakeScore = FakeSum(fake)
            /\ trustScore = TrustSum(trust)
            /\ once(ImpossibleReason, "impossible" \in cats)
            /\ once(ClickbaitReason, "clickbait" \in cats)
            /\ once(SensationalReason, "sensational" \in cats)
            /\ once(AbsoluteReason, "absolute" \in cats)
            /\ once(MultiExclamationReason, "exclamations" \in fake)
            /\ once(OneExclamationReason, "exclamation" \in fake)
            /\ once(AllCapsReason, "allcaps" \in fake)
            /\ once(TrustReason, "cues" \in trust)
            /\ Len(reasons) = Cardinality(fake \ {"short"}) + Cardinality(trust \ {"long"})

C8_Witness ==
    /\ Scored
    /\ Cardinality(Matching(lower, impossibleClaims)) >= 2
    /\ WordCount(original) > 14

\* the sentences of the rules that triggered, in the given order
TriggeredIn(order) ==
    LET fake == FakeCategories(lower) \cup StructuralFake(original)
        fired(sentence) ==
            \/ sentence = ImpossibleReason /\ "impossible" \in fake
            \/ sentence = ClickbaitReason /\ "clickbait" \in fake
            \/ sentence = SensationalReason /\ "sensational" \in fake
            \/ sentence = AbsoluteReason /\ "absolute" \in fake
            \/ sentence = MultiExclamationReason /\ "exclamations" \in fake
            \/ sentence = OneExclamationReason /\ "exclamation" \in fake
            \/ sentence = AllCapsReason /\ "allcaps" \in fake
            \/ sentence = TrustReason /\ "cues" \in TrustSignals(lower, original)
    IN  SelectSeq(order, fired)

(* C9, as stated: the explanation lists the sentences of the five phrase
   categories (impossible claims, strong clickbait, sensational words,
   absolute language, trustworthy cues) and then the structural ones
   (exclamation marks, ALL-CAPS words). *)
C9_Original ==
    (Scored /\ reasons # <<>>) =>
        result.explanation =
            join(TriggeredIn(<< ImpossibleReason, ClickbaitReason, SensationalReason,
                                AbsoluteReason, TrustReason, MultiExclamationReason,
                                OneExclamationReason, AllCapsReason >>), " ")

(* C9, amended: the explanation lists the sentences in the order impossible
   claims, strong clickbait, sensational words, absolute language,
   exclamation marks, ALL-CAPS words, trustworthy cues: the trustworthy-cues
   sentence comes last, after the structural ones. *)
C9_ExplanationOrder ==
    (Scored /\ reasons # <<>>) =>
        result.explanation =
            join(TriggeredIn(<< ImpossibleReason, ClickbaitReason, SensationalReason,
                                AbsoluteReason, MultiExclamationReason,
                                OneExclamationReason, AllCapsReason, TrustReason >>), " ")

C9_Witness ==
    /\ Scored
    /\ Matching(lower, trustworthyCues) # {}
    /\ matchCount(original, "!") >= 1
    /\ FakeCategories(lower) # {}

(* C10: the default neutral explanation comes only with the label
   trustworthy, and a result labelled fake carries at least one sentence of a
   triggered rule. *)
C10_LabelMatchesExplanation ==
    Scored =>
        /\ result.explanation = NeutralExplanation => result.label = "trustworthy"
        /\ result.label = "fake" => reasons # <<>>

----------------------------------------------------------------------------
(* The log file *)

\* a headline that is missing, empty or not a string
Rejectable(body) == body.headline.type # "string" \/ body.headline.str = ""

RECURSIVE Records(_)
Records(acc) ==
    IF Len(acc) = 0 THEN ""
    ELSE Records(SubSeq(acc, 1, Len(acc) - 1)) \o csvLine(acc[Len(acc)].body, acc[Len(acc)].at)

C7_LogState ==
    /\ logFile = (IF accepted = <<>> THEN <<>> ELSE <<CsvHeader \o Records(accepted)>>)
    /\ handled > 0 => (response.status = 400 <=> Rejectable(request))
    /\ handled > 0 => response.status \in {200, 400}

C7_LogStep ==
    handled' = handled + 1 =>
        /\ Rejectable(request') => logFile' = logFile /\ accepted' = accepted
        /\ ~Rejectable(request') =>
              /\ Len(accepted') = Len(accepted) + 1
              /\ accepted'[Len(accepted')].body = request'

(* C7: starting from an absent file, the log file stays absent until a
   request is accepted and then holds the header once, followed by one record
   per accepted request in handling order; a request whose headline is
   missing, empty or not a string is answered 400 and leaves the file as it
   was, not even created. *)
C7_LogFile == []C7_LogState /\ [][C7_LogStep]_vars

C7_Witness ==
    /\ Len(accepted) >= 2
    /\ handled = Len(accepted) + 1
    /\ response.status = 400
    /\ logFile # <<>>

====
